---- MODULE Spec2Model ----
(***************************************************************************)
(* Model of the spatial clustering engine, ClusteringService.js             *)
(* (src/unnamed/part_006): calculateDistance, UnionFind, isValidCoordinate, *)
(* createGridIndex, getNearbyIndices, clusterEvents, generateClusterId, and *)
(* of the geocoding collaborator: LRUCache (src/src/services/geocoding/     *)
(* LRUCache.ts) and GeocodingService (.../GeocodingService.ts).             *)
(*                                                                         *)
(* Specifications.  Spec: one clusterEvents call after another, each        *)
(* starting from nothing.  SpecSequence: calls in sequence where the        *)
(* structures of the call before are still in memory.  SpecValidator:       *)
(* isValidCoordinate applied to one argument.  SpecCache: the operations of *)
(* one LRUCache.  SpecGeocoding: overlapping geocode calls on one service,  *)
(* whose callers may mutate the results they hold.  SpecUnionFind: the      *)
(* find and union calls on one UnionFind.                                   *)
(*                                                                         *)
(* One clusterEvents call is a run  idle -> validate -> index -> union ->  *)
(* label -> returned  (or -> thrown); Reset hands control back to the       *)
(* caller, who may call again.                                              *)
(*                                                                         *)
(* Numbers.  JavaScript values are records [type, kind, val]; coordinates   *)
(* are whole degrees.  Trigonometry is fixed point: Math.sin and Math.cos   *)
(* are tabulated at the multiples of 15 degrees (the coordinates of the     *)
(* model are multiples of 30 degrees, so every angle the haversine formula  *)
(* takes a sine or cosine of is a multiple of 15), Math.sqrt is the integer *)
(* square root and Math.atan2 is computed by CORDIC.  Model integers are    *)
(* 32 bit, so products are rescaled before they can overflow.               *)
(***************************************************************************)
EXTENDS Integers, Sequences, FiniteSets, TLC

VARIABLES
  pc,               \* position of the call: idle, validate, index, union, label, returned, thrown
  events,           \* the events argument: [kind, elems]; elems are object references, 0 is null
  radiusInMeters,   \* the radius argument, a JavaScript value
  heap,             \* object reference -> the object's fields
  validEvents,      \* references of the events that passed validation, in order
  warnings,         \* the console.warn calls made so far
  error,            \* message of the exception thrown, "" when none
  unionFind,        \* [parent, rank] over 0..n-1
  gridIndex,        \* [grid, degreesPerCell] returned by createGridIndex
  loopI,            \* i of the outer comparison loop
  rootToClusterId,  \* root -> minted cluster id
  clusteredEvents,  \* the returned array, references of new objects
  mints,            \* the generateClusterId calls of the call: [index, clusterId] each
  previous,         \* SpecSequence: the arguments and labels of the call that returned last
  coordArg,         \* SpecValidator: the argument of isValidCoordinate
  coordAccepted,    \* SpecValidator: <<what isValidCoordinate returned>>, <<>> before
  cache,            \* LRUCache.cache: the Map's entries [key, value] in insertion order
  capacity,         \* LRUCache.capacity
  lastOp,           \* SpecCache, SpecUnionFind: the operation just performed and what it returned
  lastUse,          \* SpecCache: key -> time of its most recent successful get or set
  written,          \* SpecCache: key -> <<value of the latest set>>, <<>> once removed
  tick,             \* SpecCache: number of operations performed
  calls,            \* SpecGeocoding: call -> the geocode call's position and locals
  stored,           \* SpecGeocoding: key -> what the calls resolved since the key was last absent
  objects           \* SpecGeocoding: reference -> <<the GeoCoordinates object's fields>>, <<>> when free

clusterVars == <<pc, events, radiusInMeters, heap, validEvents, warnings, error,
                 unionFind, gridIndex, loopI, rootToClusterId, clusteredEvents, mints>>
validatorVars == <<coordArg, coordAccepted>>
cacheVars == <<cache, capacity>>
cacheHistoryVars == <<lastOp, lastUse, written, tick>>
geocodingVars == <<calls, stored, objects>>

vars == <<clusterVars, previous, validatorVars, cacheVars, cacheHistoryVars, geocodingVars>>

----------------------------------------------------------------------------
(* Bounds of the model *)

MaxEvents == 3

----------------------------------------------------------------------------
(* JavaScript values *)

Num(n) == [type |-> "number", kind |-> "finite", val |-> n]
NaN == [type |-> "number", kind |-> "NaN", val |-> 0]
PosInfinity == [type |-> "number", kind |-> "Infinity", val |-> 0]
NegInfinity == [type |-> "number", kind |-> "-Infinity", val |-> 0]
Str == [type |-> "string", kind |-> "string", val |-> 0]
Null == [type |-> "object", kind |-> "null", val |-> 0]
Undefined == [type |-> "undefined", kind |-> "undefined", val |-> 0]

\* a <= b on JavaScript numbers: false when either side is NaN
JSLessEq(a, b) ==
  IF a.kind = "NaN" \/ b.kind = "NaN" THEN FALSE
  ELSE IF a.kind = "-Infinity" \/ b.kind = "Infinity" THEN TRUE
  ELSE IF a.kind = "Infinity" \/ b.kind = "-Infinity" THEN FALSE
  ELSE a.val <= b.val

\* a >= b on JavaScript numbers
JSGreaterEq(a, b) == JSLessEq(b, a)

\* n + i for a whole number i: NaN and the infinities absorb it
JSAdd(n, i) == IF n.kind = "finite" THEN Num(n.val + i) ELSE n

\* an object {latitude, longitude}
Coord(lat, lon) == [kind |-> "object", latitude |-> lat, longitude |-> lon]
\* the value of a property that is not there
NoCoord == [kind |-> "undefined", latitude |-> Undefined, longitude |-> Undefined]

----------------------------------------------------------------------------
(* Fixed-point arithmetic standing for Math.sin, Math.cos, Math.sqrt, Math.atan2 *)

Scale == 10000

\* sin of 0, 15, ..., 90 degrees, times Scale
SinTable == <<0, 2588, 5000, 7071, 8660, 9659, 10000>>

\* Math.sin of deg degrees (a multiple of 15 in -360..360), times Scale
Sin(deg) ==
  LET d == ((deg % 360) + 360) % 360
      q == IF d <= 90 THEN d ELSE IF d <= 180 THEN 180 - d
           ELSE IF d <= 270 THEN d - 180 ELSE 360 - d
      s == SinTable[(q \div 15) + 1]
  IN IF d <= 180 THEN s ELSE -s

\* Math.cos of deg degrees, times Scale
Cos(deg) == Sin(deg + 90)

RECURSIVE SqrtSearch(_, _, _)
SqrtSearch(n, lo, hi) ==
  IF lo >= hi THEN lo
  ELSE LET mid == (lo + hi + 1) \div 2
       IN IF mid * mid <= n THEN SqrtSearch(n, mid, hi) ELSE SqrtSearch(n, lo, mid - 1)

\* Math.sqrt of x / Scale, times Scale (x in 0..Scale)
Sqrt(x) == SqrtSearch(x * Scale, 0, Scale)

\* atan(2^-i) in units of 10^-5 radian, i = 0..15
AtanTable == <<78540, 46365, 24498, 12435, 6242, 3124, 1562, 781,
               391, 195, 98, 49, 24, 12, 6, 3>>

\* 2^i, i = 0..15
PowerOfTwo == <<1, 2, 4, 8, 16, 32, 64, 128, 256, 512, 1024, 2048, 4096, 8192, 16384, 32768>>

RECURSIVE Cordic(_, _, _, _)
Cordic(x, y, angle, i) ==
  IF i >= Len(AtanTable) \/ y = 0 THEN angle
  ELSE LET dx == x \div PowerOfTwo[i + 1]
           dy == y \div PowerOfTwo[i + 1]
       IN IF y > 0 THEN Cordic(x + dy, y - dx, angle + AtanTable[i + 1], i + 1)
          ELSE Cordic(x - dy, y + dx, angle - AtanTable[i + 1], i + 1)

\* Math.atan2(y, x) for y >= 0 and x >= 0, in units of 10^-5 radian
Atan2(y, x) == IF y = 0 THEN 0 ELSE Cordic(x * 1000, y * 1000, 0, 0)

----------------------------------------------------------------------------
(* calculateDistance *)

R == 6371000

\* the haversine term a, times Scale
HaversineA(coord1, coord2) ==
  LET lat1 == coord1.latitude.val
      lat2 == coord2.latitude.val
      deltaLat == coord2.latitude.val - coord1.latitude.val
      deltaLon == coord2.longitude.val - coord1.longitude.val
      sLat == Sin(deltaLat \div 2)
      sLon == Sin(deltaLon \div 2)
  IN ((sLat * sLat) \div Scale)
     + ((((Cos(lat1) * Cos(lat2)) \div Scale) * ((sLon * sLon) \div Scale)) \div Scale)

\* distance in meters between two coordinates with finite fields
Haversine(coord1, coord2) ==
  LET a == HaversineA(coord1, coord2)
      c == 2 * Atan2(Sqrt(a), Sqrt(Scale - a))
  IN Num(((R \div 1000) * c) \div 100)

----------------------------------------------------------------------------
(* UnionFind *)

\* new UnionFind(size)
UnionFind(size) == [parent |-> [i \in 0..(size - 1) |-> i],
                    rank   |-> [i \in 0..(size - 1) |-> 0]]

\* find(x) with path compression: the structure afterwards and the root returned
RECURSIVE find(_, _)
find(uf, x) ==
  IF uf.parent[x] # x
  THEN LET above == find(uf, uf.parent[x])
       IN [uf |-> [above.uf EXCEPT !.parent[x] = above.root], root |-> above.root]
  ELSE [uf |-> uf, root |-> uf.parent[x]]

\* union(x, y) linking x itself, not the root of its tree, below the root of y
unionLinkingArgument(uf, x, y) ==
  LET fx == find(uf, x)
      fy == find(fx.uf, y)
  IN IF fx.root = fy.root THEN fy.uf ELSE [fy.uf EXCEPT !.parent[x] = fy.root]

\* union(x, y) without the ranks: the root of y always goes below the root of x
unionWithoutRank(uf, x, y) ==
  LET fx == find(uf, x)
      fy == find(fx.uf, y)
  IN IF fx.root = fy.root THEN fy.uf ELSE [fy.uf EXCEPT !.parent[fy.root] = fx.root]

\* union(x, y) by rank: the structure afterwards
union(uf, x, y) ==
  LET fx == find(uf, x)
      fy == find(fx.uf, y)
      rootX == fx.root
      rootY == fy.root
      u == fy.uf
  IN IF rootX = rootY THEN u
     ELSE IF u.rank[rootX] < u.rank[rootY] THEN [u EXCEPT !.parent[rootX] = rootY]
     ELSE IF u.rank[rootX] > u.rank[rootY] THEN [u EXCEPT !.parent[rootY] = rootX]
     ELSE [u EXCEPT !.parent[rootY] = rootX, !.rank[rootX] = @ + 1]

----------------------------------------------------------------------------
(* isValidCoordinate *)

\* isValidCoordinate with the bounds excluded (> and < for >= and <=)
isValidCoordinateExclusive(coord) ==
  IF coord.kind # "object" \/ coord.latitude.type # "number" \/ coord.longitude.type # "number"
  THEN FALSE
  ELSE /\ ~JSLessEq(coord.latitude, Num(-90))
       /\ ~JSGreaterEq(coord.latitude, Num(90))
       /\ ~JSLessEq(coord.longitude, Num(-180))
       /\ ~JSGreaterEq(coord.longitude, Num(180))

\* !coord (null, undefined) and a coord without number fields (a string) are
\* the kinds other than "object"
isValidCoordinate(coord) ==
  IF coord.kind # "object" \/ coord.latitude.type # "number" \/ coord.longitude.type # "number"
  THEN FALSE
  ELSE /\ JSGreaterEq(coord.latitude, Num(-90))
       /\ JSLessEq(coord.latitude, Num(90))
       /\ JSGreaterEq(coord.longitude, Num(-180))
       /\ JSLessEq(coord.longitude, Num(180))

----------------------------------------------------------------------------
(* createGridIndex, getNearbyIndices *)

earthCircumference == 40075000

\* radiusInMeters * (360 / earthCircumference) as a fraction in lowest terms
\* (360 / 40075000 = 9 / 1001875), or NaN / Infinity when the radius is
DegreesPerCell(radius) ==
  IF radius.kind = "finite"
  THEN [kind |-> "finite", num |-> radius.val * (360 \div 40), den |-> earthCircumference \div 40]
  ELSE [kind |-> radius.kind, num |-> 0, den |-> 1]

\* Math.floor(deg / degreesPerCell); x / Infinity is 0, x / NaN is NaN
CellOf(deg, degreesPerCell) ==
  IF degreesPerCell.kind = "finite" THEN Num((deg.val * degreesPerCell.den) \div degreesPerCell.num)
  ELSE IF degreesPerCell.kind = "NaN" THEN NaN
  ELSE Num(0)

\* the key `${row},${col}`
CellKey(row, col) == <<row, col>>

\* the cell key of the event at index (0-based) of evs, the valid events' fields
KeyOf(evs, index, degreesPerCell) ==
  CellKey(CellOf(evs[index + 1].coordinates.latitude, degreesPerCell),
          CellOf(evs[index + 1].coordinates.longitude, degreesPerCell))

\* events.forEach((event, index) => ...) from index on: push index to its cell's list
RECURSIVE GridInsertFrom(_, _, _, _)
GridInsertFrom(evs, degreesPerCell, index, grid) ==
  IF index >= Len(evs) THEN grid
  ELSE GridInsertFrom(evs, degreesPerCell, index + 1,
         [key \in DOMAIN grid \cup {KeyOf(evs, index, degreesPerCell)} |->
            IF key = KeyOf(evs, index, degreesPerCell)
            THEN Append(IF key \in DOMAIN grid THEN grid[key] ELSE <<>>, index)
            ELSE grid[key]])

createGridIndex(evs, radius) ==
  [grid |-> GridInsertFrom(evs, DegreesPerCell(radius), 0, [key \in {} |-> <<>>]),
   degreesPerCell |-> DegreesPerCell(radius)]

\* the (i, j) pairs of the two nested loops, in order
NeighbourOffsets == <<<<-1, -1>>, <<-1, 0>>, <<-1, 1>>, <<0, -1>>, <<0, 0>>, <<0, 1>>,
                      <<1, -1>>, <<1, 0>>, <<1, 1>>>>

RECURSIVE NearbyFrom(_, _, _, _)
NearbyFrom(grid, row, col, k) ==
  IF k > Len(NeighbourOffsets) THEN <<>>
  ELSE LET key == CellKey(JSAdd(row, NeighbourOffsets[k][1]), JSAdd(col, NeighbourOffsets[k][2]))
       IN (IF key \in DOMAIN grid THEN grid[key] ELSE <<>>) \o NearbyFrom(grid, row, col, k + 1)

getNearbyIndices(grid, row, col) == NearbyFrom(grid, row, col, 1)

----------------------------------------------------------------------------
(* The inputs of the model *)

\* a clusterId left on an event by an earlier clustering
StaleClusterId == [time |-> 0, rand |-> "old"]

\* the event objects a caller passes
EventPool == <<
  [id |-> 1, coordinates |-> Coord(Num(0), Num(0))],
  [id |-> 2, coordinates |-> Coord(Num(0), Num(30))],
  [id |-> 3, coordinates |-> Coord(Num(0), Num(60)), clusterId |-> StaleClusterId],
  [id |-> 4, coordinates |-> Coord(Num(60), Num(-30)), type |-> "protest"],
  [id |-> 5, coordinates |-> Coord(Num(60), Num(60))],
  [id |-> 6, type |-> "concert"],
  [id |-> 0, coordinates |-> Coord(Num(91), Num(200))] >>

\* the radius arguments a caller passes
RadiusArgs == {Num(5000000), Num(1000), Num(0), Num(-100), NaN, PosInfinity, Str, Null}

\* an events argument with the heap holding its objects: an array whose k-th
\* element is null (kinds[k] = 0) or a new object with the fields of
\* EventPool[kinds[k]], referenced by k
ArrayArg(kinds) ==
  [events |-> [kind |-> "array",
               elems |-> [k \in 1..Len(kinds) |-> IF kinds[k] = 0 THEN 0 ELSE k]],
   heap   |-> [k \in {j \in 1..Len(kinds) : kinds[j] # 0} |-> EventPool[kinds[k]]]]

\* an events argument that is no array: a string, null, undefined
NonArrayArg(kind) == [events |-> [kind |-> kind, elems |-> <<>>], heap |-> <<>>]

EventsArgs ==
  {ArrayArg(kinds) : kinds \in UNION {[1..n -> 0..Len(EventPool)] : n \in 0..MaxEvents}}
  \cup {NonArrayArg(kind) : kind \in {"string", "null", "undefined"}}

\* the coordinates of the pool that pass validation
ValidCoordinates ==
  {EventPool[p].coordinates : p \in {q \in 1..Len(EventPool) :
     "coordinates" \in DOMAIN EventPool[q] /\ isValidCoordinate(EventPool[q].coordinates)}}

\* Haversine over the coordinates of the model, computed once
DistanceTable == [c \in ValidCoordinates \X ValidCoordinates |-> Haversine(c[1], c[2])]

\* calculateDistance(coord1, coord2), in meters
calculateDistance(coord1, coord2) == DistanceTable[<<coord1, coord2>>]

----------------------------------------------------------------------------
(* clusterEvents *)

EmptyMap == [x \in {} |-> 0]

\* InputCheck with the radius checked before the events argument
InputCheckRadiusFirst(evs, radius) ==
  IF radius.type # "number" \/ JSLessEq(radius, Num(0)) THEN "Radius must be a positive number"
  ELSE IF evs.kind # "array" THEN "Events must be an array"
  ELSE ""

\* the two input checks: the message of the error thrown, "" when none
InputCheck(evs, radius) ==
  IF evs.kind # "array" THEN "Events must be an array"
  ELSE IF radius.type # "number" \/ JSLessEq(radius, Num(0)) THEN "Radius must be a positive number"
  ELSE ""

\* event.coordinates
Coordinates(event) == IF "coordinates" \in DOMAIN event THEN event.coordinates ELSE NoCoord

\* the argument of console.warn: `Skipping event with invalid coordinates${eventId}`,
\* eventId being '' (here <<>>) or ` (ID: ${event.id})` (here <<event.id>>)
WarnMessage(event) ==
  [text |-> "Skipping event with invalid coordinates",
   eventId |-> IF "id" \in DOMAIN event /\ event.id # 0 THEN <<event.id>> ELSE <<>>]

\* the validation loop from element k on; reading event.coordinates of null throws
RECURSIVE ValidateFrom(_, _, _, _)
ValidateFrom(elems, h, k, acc) ==
  IF k > Len(elems) THEN acc
  ELSE IF elems[k] = 0 THEN [acc EXCEPT !.threw = TRUE]
  ELSE LET event == h[elems[k]]
       IN IF Coordinates(event).kind # "object" \/ ~isValidCoordinate(Coordinates(event))
          THEN ValidateFrom(elems, h, k + 1,
                            [acc EXCEPT !.warnings = Append(@, WarnMessage(event))])
          ELSE ValidateFrom(elems, h, k + 1,
                            [acc EXCEPT !.validEvents = Append(@, elems[k])])

\* the validation loop leaving at the first invalid event (break for continue)
RECURSIVE ValidateUntilInvalid(_, _, _, _)
ValidateUntilInvalid(elems, h, k, acc) ==
  IF k > Len(elems) THEN acc
  ELSE IF elems[k] = 0 THEN [acc EXCEPT !.threw = TRUE]
  ELSE LET event == h[elems[k]]
       IN IF Coordinates(event).kind # "object" \/ ~isValidCoordinate(Coordinates(event))
          THEN [acc EXCEPT !.warnings = Append(@, WarnMessage(event))]
          ELSE ValidateUntilInvalid(elems, h, k + 1,
                                    [acc EXCEPT !.validEvents = Append(@, elems[k])])

FilterValidBreak(elems, h, warned) ==
  ValidateUntilInvalid(elems, h, 1, [validEvents |-> <<>>, warnings |-> warned, threw |-> FALSE])

\* the validation loop warning only about events that have a truthy id
RECURSIVE ValidateWarnIfId(_, _, _, _)
ValidateWarnIfId(elems, h, k, acc) ==
  IF k > Len(elems) THEN acc
  ELSE IF elems[k] = 0 THEN [acc EXCEPT !.threw = TRUE]
  ELSE IF Coordinates(h[elems[k]]).kind # "object" \/ ~isValidCoordinate(Coordinates(h[elems[k]]))
  THEN ValidateWarnIfId(elems, h, k + 1,
         IF WarnMessage(h[elems[k]]).eventId # <<>>
         THEN [acc EXCEPT !.warnings = Append(@, WarnMessage(h[elems[k]]))]
         ELSE acc)
  ELSE ValidateWarnIfId(elems, h, k + 1, [acc EXCEPT !.validEvents = Append(@, elems[k])])

FilterValidWarnIfId(elems, h, warned) ==
  ValidateWarnIfId(elems, h, 1, [validEvents |-> <<>>, warnings |-> warned, threw |-> FALSE])

\* the validation loop over the whole array, lines 164-172
FilterValid(elems, h, warned) ==
  ValidateFrom(elems, h, 1, [validEvents |-> <<>>, warnings |-> warned, threw |-> FALSE])

\* the inner loop, for (const j of nearbyIndices), from position k on
RECURSIVE CompareFrom(_, _, _, _, _, _)
CompareFrom(uf, evs, radius, i, nearbyIndices, k) ==
  IF k > Len(nearbyIndices) THEN uf
  ELSE LET j == nearbyIndices[k]
       IN IF i < j /\ JSLessEq(calculateDistance(evs[i + 1].coordinates, evs[j + 1].coordinates),
                               radius)
          THEN CompareFrom(union(uf, i, j), evs, radius, i, nearbyIndices, k + 1)
          ELSE CompareFrom(uf, evs, radius, i, nearbyIndices, k + 1)

\* the inner loop uniting i with every later index of its block, whatever
\* the distance
RECURSIVE UniteFrom(_, _, _, _)
UniteFrom(uf, i, nearbyIndices, k) ==
  IF k > Len(nearbyIndices) THEN uf
  ELSE IF i < nearbyIndices[k]
  THEN UniteFrom(union(uf, i, nearbyIndices[k]), i, nearbyIndices, k + 1)
  ELSE UniteFrom(uf, i, nearbyIndices, k + 1)

\* one iteration of the outer loop without the distance check
CompareWithNearbyUnitingAll(uf, evs, radius, index, i) ==
  UniteFrom(uf, i,
            getNearbyIndices(index.grid,
                             CellOf(evs[i + 1].coordinates.latitude, index.degreesPerCell),
                             CellOf(evs[i + 1].coordinates.longitude, index.degreesPerCell)),
            1)

\* one iteration of the outer loop, for (let i = 0; i < n; i++)
CompareWithNearby(uf, evs, radius, index, i) ==
  LET row == CellOf(evs[i + 1].coordinates.latitude, index.degreesPerCell)
      col == CellOf(evs[i + 1].coordinates.longitude, index.degreesPerCell)
      nearbyIndices == getNearbyIndices(index.grid, row, col)
  IN CompareFrom(uf, evs, radius, i, nearbyIndices, 1)

\* the values generateClusterId() can return within one call:
\* `cluster_${Date.now()}_${Math.random().toString(36).substr(2, 9)}`
generateClusterId == {[time |-> 1, rand |-> s] : s \in {"a", "b"}}

\* { clusterId, ...event }: a clusterId the event already has wins
ClusterIdThenEvent(event, clusterId) ==
  [f \in DOMAIN event \cup {"clusterId"} |-> IF f \in DOMAIN event THEN event[f] ELSE clusterId]

\* { ...event, clusterId }
WithClusterId(event, clusterId) ==
  [f \in DOMAIN event \cup {"clusterId"} |-> IF f = "clusterId" THEN clusterId ELSE event[f]]

\* validEvents.map(...) from index on; ids[index] is what generateClusterId()
\* returns when the callback calls it at index
RECURSIVE LabelFrom(_, _, _, _)
LabelFrom(evs, ids, index, acc) ==
  IF index >= Len(evs) THEN acc
  ELSE LET f == find(acc.uf, index)
           map == IF f.root \in DOMAIN acc.map THEN acc.map
                  ELSE [r \in DOMAIN acc.map \cup {f.root} |->
                          IF r = f.root THEN ids[index] ELSE acc.map[r]]
       IN LabelFrom(evs, ids, index + 1,
                    [uf |-> f.uf, map |-> map,
                     out |-> Append(acc.out, WithClusterId(evs[index + 1], map[f.root])),
                     minted |-> IF f.root \in DOMAIN acc.map THEN acc.minted
                                ELSE Append(acc.minted,
                                            [index |-> index, clusterId |-> ids[index]])])

\* the map callback calling generateClusterId() at every index, and keeping
\* the value for a root that has none
RECURSIVE LabelFromMintingEach(_, _, _, _)
LabelFromMintingEach(evs, ids, index, acc) ==
  IF index >= Len(evs) THEN acc
  ELSE LET f == find(acc.uf, index)
           map == IF f.root \in DOMAIN acc.map THEN acc.map
                  ELSE [r \in DOMAIN acc.map \cup {f.root} |->
                          IF r = f.root THEN ids[index] ELSE acc.map[r]]
       IN LabelFromMintingEach(evs, ids, index + 1,
                    [uf |-> f.uf, map |-> map,
                     out |-> Append(acc.out, WithClusterId(evs[index + 1], map[f.root])),
                     minted |-> Append(acc.minted,
                                       [index |-> index, clusterId |-> ids[index]])])

\* the root of index i, read without compressing
RECURSIVE RootOf(_, _)
RootOf(uf, i) == IF uf.parent[i] = i THEN i ELSE RootOf(uf, uf.parent[i])

\* the map callback run over validEvents, the output reordered so that the
\* events of one cluster are adjacent
GroupKey(uf, n, k) ==
  (n + 1) * (CHOOSE m \in 1..n :
               /\ RootOf(uf, m - 1) = RootOf(uf, k - 1)
               /\ \A l \in 1..(m - 1) : RootOf(uf, l - 1) # RootOf(uf, k - 1))
  + k

GroupPosition(uf, n, k) ==
  Cardinality({m \in 1..n : GroupKey(uf, n, m) < GroupKey(uf, n, k)}) + 1

AssignClusterIdsGrouped(evs, ids, uf, map) ==
  LET res == LabelFrom(evs, ids, 0, [uf |-> uf, map |-> map, out |-> <<>>, minted |-> <<>>])
  IN [res EXCEPT !.out = [q \in 1..Len(evs) |->
        res.out[CHOOSE k \in 1..Len(evs) : GroupPosition(res.uf, Len(evs), k) = q]]]

\* validEvents.map(...) with generateClusterId() called at every index
AssignClusterIdsMintingEach(evs, ids, uf, map) ==
  LabelFromMintingEach(evs, ids, 0, [uf |-> uf, map |-> map, out |-> <<>>, minted |-> <<>>])

\* validEvents.map(...) over all of validEvents: [uf, map, out, minted]
AssignClusterIds(evs, ids, uf, map) ==
  LabelFrom(evs, ids, 0, [uf |-> uf, map |-> map, out |-> <<>>, minted |-> <<>>])

\* the fields of the valid events, in order
ValidFields == [k \in 1..Len(validEvents) |-> heap[validEvents[k]]]

\* no clusterEvents call is running
ClusterIdle ==
  /\ pc = "idle"
  /\ events = [kind |-> "undefined", elems |-> <<>>]
  /\ radiusInMeters = Undefined
  /\ heap = <<>>
  /\ validEvents = <<>>
  /\ warnings = <<>>
  /\ error = ""
  /\ unionFind = UnionFind(0)
  /\ gridIndex = [grid |-> EmptyMap, degreesPerCell |-> DegreesPerCell(Undefined)]
  /\ loopI = 0
  /\ rootToClusterId = EmptyMap
  /\ clusteredEvents = <<>>
  /\ mints = <<>>

\* the variables of the other specifications, which clusterEvents has no part in
outsideClustering == <<validatorVars, cacheVars, cacheHistoryVars, geocodingVars>>

\* isValidCoordinate was not called
ValidatorIdle == coordArg = NoCoord /\ coordAccepted = <<>>

\* no LRUCache was constructed
CacheAbsent == cache = <<>> /\ capacity = 0

\* no LRUCache operation was recorded
CacheHistoryIdle == lastOp = [op |-> "none"] /\ lastUse = EmptyMap /\ written = EmptyMap /\ tick = 0

\* no GeocodingService was constructed
GeocodingIdle == calls = <<>> /\ stored = EmptyMap /\ objects = <<>>

Init ==
  /\ ClusterIdle
  /\ previous = <<>>
  /\ ValidatorIdle
  /\ CacheAbsent
  /\ CacheHistoryIdle
  /\ GeocodingIdle

\* clusterEvents(events, radiusInMeters) is entered with arguments of the two
\* sets: the input checks
CallWith(eventsArgs, radiusArgs) ==
  /\ pc = "idle"
  /\ \E arg \in eventsArgs, radius \in radiusArgs :
       /\ events' = arg.events
       /\ heap' = arg.heap
       /\ radiusInMeters' = radius
       /\ error' = InputCheck(arg.events, radius)
       /\ pc' = IF InputCheck(arg.events, radius) # "" THEN "thrown"
                ELSE IF Len(arg.events.elems) = 0 THEN "returned"
                ELSE "validate"
  /\ UNCHANGED <<validEvents, warnings, unionFind, gridIndex, loopI, rootToClusterId,
                 clusteredEvents, mints>>
  /\ UNCHANGED <<previous, outsideClustering>>

\* a call with any of the arguments of the model
Call == CallWith(EventsArgs, RadiusArgs)

\* the validation loop, and the return when no event is valid
Validate ==
  /\ pc = "validate"
  /\ LET res == FilterValid(events.elems, heap, <<>>)
     IN /\ validEvents' = res.validEvents
        /\ warnings' = res.warnings
        /\ error' = IF res.threw THEN "TypeError" ELSE ""
        /\ pc' = IF res.threw THEN "thrown"
                 ELSE IF Len(res.validEvents) = 0 THEN "returned"
                 ELSE "index"
  /\ UNCHANGED <<events, radiusInMeters, heap, unionFind, gridIndex, loopI, rootToClusterId,
                 clusteredEvents, mints>>
  /\ UNCHANGED <<previous, outsideClustering>>

\* new UnionFind(n) and createGridIndex(validEvents, radiusInMeters)
Index ==
  /\ pc = "index"
  /\ unionFind' = UnionFind(Len(validEvents))
  /\ gridIndex' = createGridIndex(ValidFields, radiusInMeters)
  /\ loopI' = 0
  /\ pc' = "union"
  /\ UNCHANGED <<events, radiusInMeters, heap, validEvents, warnings, error, rootToClusterId,
                 clusteredEvents, mints>>
  /\ UNCHANGED <<previous, outsideClustering>>

\* one iteration of the comparison loop: event i against the events of its 3x3 block
Union ==
  /\ pc = "union"
  /\ unionFind' = CompareWithNearby(unionFind, ValidFields, radiusInMeters, gridIndex, loopI)
  /\ loopI' = loopI + 1
  /\ pc' = IF loopI + 1 < Len(validEvents) THEN "union" ELSE "label"
  /\ UNCHANGED <<events, radiusInMeters, heap, validEvents, warnings, error, gridIndex,
                 rootToClusterId, clusteredEvents, mints>>
  /\ UNCHANGED <<previous, outsideClustering>>

\* Label writing clusterId into the input objects and returning them
LabelInPlace ==
  /\ pc = "label"
  /\ \E ids \in [0..(Len(validEvents) - 1) -> generateClusterId] :
       LET res == AssignClusterIds(ValidFields, ids, unionFind, rootToClusterId)
       IN /\ unionFind' = res.uf
          /\ rootToClusterId' = res.map
          /\ mints' = res.minted
          /\ heap' = [ref \in DOMAIN heap |->
                        IF \E k \in 1..Len(validEvents) : validEvents[k] = ref
                        THEN res.out[CHOOSE k \in 1..Len(validEvents) : validEvents[k] = ref]
                        ELSE heap[ref]]
          /\ clusteredEvents' = validEvents
  /\ pc' = "returned"
  /\ UNCHANGED <<events, radiusInMeters, validEvents, warnings, error, gridIndex, loopI>>
  /\ UNCHANGED <<previous, outsideClustering>>

\* Label that unites the first and the last valid event before it labels
LabelUniting ==
  /\ pc = "label"
  /\ \E ids \in [0..(Len(validEvents) - 1) -> generateClusterId] :
       LET res == AssignClusterIds(ValidFields, ids,
                                   union(unionFind, 0, Len(validEvents) - 1), EmptyMap)
           base == Len(events.elems)
       IN /\ unionFind' = res.uf
          /\ rootToClusterId' = res.map
          /\ mints' = res.minted
          /\ heap' = [ref \in DOMAIN heap \cup {base + k : k \in 1..Len(res.out)} |->
                        IF ref > base THEN res.out[ref - base] ELSE heap[ref]]
          /\ clusteredEvents' = [k \in 1..Len(res.out) |-> base + k]
  /\ pc' = "returned"
  /\ UNCHANGED <<events, radiusInMeters, validEvents, warnings, error, gridIndex, loopI>>
  /\ UNCHANGED <<previous, outsideClustering>>

\* Label with rootToClusterId a map of the module, shared by all calls
LabelSharedMap ==
  /\ pc = "label"
  /\ \E ids \in [0..(Len(validEvents) - 1) -> generateClusterId] :
       LET res == AssignClusterIds(ValidFields, ids, unionFind, rootToClusterId)
           base == Len(events.elems)
       IN /\ unionFind' = res.uf
          /\ rootToClusterId' = res.map
          /\ mints' = res.minted
          /\ heap' = [ref \in DOMAIN heap \cup {base + k : k \in 1..Len(res.out)} |->
                        IF ref > base THEN res.out[ref - base] ELSE heap[ref]]
          /\ clusteredEvents' = [k \in 1..Len(res.out) |-> base + k]
  /\ pc' = "returned"
  /\ UNCHANGED <<events, radiusInMeters, validEvents, warnings, error, gridIndex, loopI>>
  /\ UNCHANGED <<previous, outsideClustering>>

\* const rootToClusterId = new Map(); validEvents.map(...): cluster ids are
\* minted, the new objects are built and returned
Label ==
  /\ pc = "label"
  /\ \E ids \in [0..(Len(validEvents) - 1) -> generateClusterId] :
       LET res == AssignClusterIds(ValidFields, ids, unionFind, EmptyMap)
           base == Len(events.elems)
       IN /\ unionFind' = res.uf
          /\ rootToClusterId' = res.map
          /\ mints' = res.minted
          /\ heap' = [ref \in DOMAIN heap \cup {base + k : k \in 1..Len(res.out)} |->
                        IF ref > base THEN res.out[ref - base] ELSE heap[ref]]
          /\ clusteredEvents' = [k \in 1..Len(res.out) |-> base + k]
  /\ pc' = "returned"
  /\ UNCHANGED <<events, radiusInMeters, validEvents, warnings, error, gridIndex, loopI>>
  /\ UNCHANGED <<previous, outsideClustering>>

\* the call is over and its locals are gone; the caller may call again
Reset ==
  /\ pc \in {"returned", "thrown"}
  /\ pc' = "idle"
  /\ events' = [kind |-> "undefined", elems |-> <<>>]
  /\ radiusInMeters' = Undefined
  /\ heap' = <<>>
  /\ validEvents' = <<>>
  /\ warnings' = <<>>
  /\ error' = ""
  /\ unionFind' = UnionFind(0)
  /\ gridIndex' = [grid |-> EmptyMap, degreesPerCell |-> DegreesPerCell(Undefined)]
  /\ loopI' = 0
  /\ rootToClusterId' = EmptyMap
  /\ clusteredEvents' = <<>>
  /\ mints' = <<>>
  /\ UNCHANGED <<previous, outsideClustering>>

Next == Call \/ Validate \/ Index \/ Union \/ Label \/ Reset

Spec == Init /\ [][Next]_vars

----------------------------------------------------------------------------
(* Notions the properties are stated in *)

\* the references of the objects of the events argument
InputRefs == {events.elems[k] : k \in 1..Len(events.elems)} \ {0}

\* a point is valid: present, both fields finite numbers, both within range
HasValidCoordinates(event) ==
  /\ "coordinates" \in DOMAIN event
  /\ event.coordinates.kind = "object"
  /\ event.coordinates.latitude.kind = "finite"
  /\ event.coordinates.longitude.kind = "finite"
  /\ event.coordinates.latitude.val \in -90..90
  /\ event.coordinates.longitude.val \in -180..180

\* the input events with valid coordinates, in input order
RECURSIVE ValidRefsFrom(_)
ValidRefsFrom(k) ==
  IF k > Len(events.elems) THEN <<>>
  ELSE IF events.elems[k] # 0 /\ HasValidCoordinates(heap[events.elems[k]])
  THEN <<events.elems[k]>> \o ValidRefsFrom(k + 1)
  ELSE ValidRefsFrom(k + 1)

ValidInputRefs == ValidRefsFrom(1)

\* an event's fields other than the cluster label
Payload(event) == [f \in DOMAIN event \ {"clusterId"} |-> event[f]]

\* the k-th element of the returned array
Output(k) == heap[clusteredEvents[k]]

\* the call was not rejected by an input check
Accepted == pc # "idle" /\ error \notin {"Events must be an array", "Radius must be a positive number"}

\* the radius is a positive finite number
PositiveFinite(radius) == radius.type = "number" /\ radius.kind = "finite" /\ radius.val > 0

\* output events i and j are within the radius of each other
WithinRadius(a, b) ==
  JSLessEq(calculateDistance(Output(a).coordinates, Output(b).coordinates), radiusInMeters)

\* the output events linked to those of S by hops within the radius
RECURSIVE LinkedTo(_)
LinkedTo(S) ==
  LET T == S \cup {j \in 1..Len(clusteredEvents) : \E i \in S : WithinRadius(i, j)}
  IN IF T = S THEN S ELSE LinkedTo(T)

----------------------------------------------------------------------------
(* Properties *)

\* C1: any two valid events whose haversine distance is at most the radius
\* (the boundary included) receive the same clusterId.
C1_WithinRadiusSameCluster ==
  pc = "returned" =>
    \A i, j \in 1..Len(clusteredEvents) :
      WithinRadius(i, j) => Output(i).clusterId = Output(j).clusterId

\* C2: clustering is transitive: if A is within the radius of B and B within
\* the radius of C, then A, B and C receive the same clusterId, whatever the
\* distance of A and C.
C2_TransitiveSameCluster ==
  pc = "returned" =>
    \A a, b, c \in 1..Len(clusteredEvents) :
      (a # b /\ b # c /\ a # c /\ WithinRadius(a, b) /\ WithinRadius(b, c))
        => (Output(a).clusterId = Output(b).clusterId /\ Output(b).clusterId = Output(c).clusterId)

\* C3: two valid events that are farther apart than the radius and are not
\* linked through a chain of valid events, each hop within the radius, receive
\* distinct clusterIds (stated for the radii the contract admits).
C3_UnlinkedDistinctClusters ==
  (pc = "returned" /\ PositiveFinite(radiusInMeters)) =>
    \A i, j \in 1..Len(clusteredEvents) :
      j \notin LinkedTo({i}) => Output(i).clusterId # Output(j).clusterId

\* C4: the output has exactly one element per input event with valid
\* coordinates and none for an event with missing or invalid coordinates, and
\* every output element carries a minted clusterId.
C4_OutputExactlyValidEvents ==
  pc = "returned" =>
    /\ Len(clusteredEvents) = Len(ValidInputRefs)
    /\ \A k \in 1..Len(clusteredEvents) :
         "clusterId" \in DOMAIN Output(k) /\ Output(k).clusterId \in generateClusterId
    /\ \A p \in 1..Len(EventPool) :
         Cardinality({k \in 1..Len(clusteredEvents) : Payload(Output(k)) = Payload(EventPool[p])})
           = IF HasValidCoordinates(EventPool[p])
             THEN Cardinality({k \in 1..Len(events.elems) :
                                 events.elems[k] # 0 /\ heap[events.elems[k]] = EventPool[p]})
             ELSE 0

\* C4 witness: a call returned two labelled events out of three, one was skipped
C4_Witness ==
  /\ pc = "returned"
  /\ Len(events.elems) = 3
  /\ Len(clusteredEvents) = 2
  /\ Len(warnings) = 1

\* every element of the events array is an event object with missing or invalid coordinates
AllEventsInvalid ==
  /\ events.kind = "array"
  /\ Len(events.elems) >= 1
  /\ \A k \in 1..Len(events.elems) :
       events.elems[k] # 0 /\ ~HasValidCoordinates(heap[events.elems[k]])

\* C5: when every event of a non-empty input has missing or invalid
\* coordinates, the call returns an empty array, has warned exactly once per
\* input event, and does not throw.
C5_AllInvalidReturnsEmpty ==
  (Accepted /\ AllEventsInvalid) =>
    /\ pc # "thrown"
    /\ error = ""
    /\ pc = "returned" => (clusteredEvents = <<>> /\ Len(warnings) = Len(events.elems))

\* C5 witness: a call with two invalid events has returned
C5_Witness ==
  /\ Accepted
  /\ AllEventsInvalid
  /\ pc = "returned"
  /\ Len(events.elems) = 2
  /\ Len(warnings) = 2
  /\ clusteredEvents = <<>>

\* the radius is no number, or a number that is zero or negative
RadiusCheckFails(radius) ==
  \/ radius.type # "number"
  \/ radius.kind = "-Infinity"
  \/ (radius.kind = "finite" /\ radius.val <= 0)

\* C6: a contract violation is detected before any per-event work: a
\* non-array events argument throws 'Events must be an array' whatever the
\* radius, a failed radius check throws 'Radius must be a positive number', and
\* then nothing was validated, no warning was made and no output exists.
C6_ContractViolationBeforeWork ==
  /\ (pc # "idle" /\ events.kind # "array")
       => (pc = "thrown" /\ error = "Events must be an array")
  /\ (pc # "idle" /\ events.kind = "array" /\ RadiusCheckFails(radiusInMeters))
       => (pc = "thrown" /\ error = "Radius must be a positive number")
  /\ (pc # "idle" /\ ~Accepted)
       => /\ pc = "thrown"
          /\ validEvents = <<>>
          /\ warnings = <<>>
          /\ clusteredEvents = <<>>
          /\ DOMAIN heap = InputRefs

\* C6 witness: both arguments are bad and the events message is the one thrown
C6_Witness ==
  /\ pc = "thrown"
  /\ events.kind = "string"
  /\ radiusInMeters = Num(0)
  /\ error = "Events must be an array"

\* C7: every call whose radius is not a positive finite number (zero,
\* negative, no number, NaN, infinite) is rejected.
C7_RejectsEveryNonPositiveFiniteRadius ==
  (pc # "idle" /\ events.kind = "array" /\ ~PositiveFinite(radiusInMeters))
    => (pc = "thrown" /\ error = "Radius must be a positive number")

\* C8: the k-th output element is the k-th valid input event, whatever unions
\* were performed.
C8_OutputPreservesInputOrder ==
  pc = "returned" =>
    /\ Len(clusteredEvents) = Len(ValidInputRefs)
    /\ \A k \in 1..Len(clusteredEvents) :
         Payload(Output(k)) = Payload(heap[ValidInputRefs[k]])

\* C8 witness: the first and the last of three valid events were united, the
\* one between them was not
C8_Witness ==
  /\ pc = "returned"
  /\ Len(clusteredEvents) = 3
  /\ RootOf(unionFind, 0) = RootOf(unionFind, 2)
  /\ RootOf(unionFind, 0) # RootOf(unionFind, 1)

\* C9: the call never changes its input: while it runs, and when it has
\* returned or thrown, the events array and every input object are as they
\* were, and no returned element is an input object.
C9_InputNeverMutated ==
  [][(pc # "idle" /\ pc' # "idle") =>
       /\ events' = events
       /\ \A ref \in InputRefs : ref \in DOMAIN heap' /\ heap'[ref] = heap[ref]
       /\ \A k \in 1..Len(clusteredEvents') : clusteredEvents'[k] \notin InputRefs]_vars

\* C9 witness: a call returned labelled events after skipping one
C9_Witness ==
  /\ pc = "returned"
  /\ Len(clusteredEvents) >= 2
  /\ Len(warnings) >= 1
  /\ \A k \in 1..Len(clusteredEvents) : "clusterId" \in DOMAIN Output(k)

RECURSIVE InvalidRefsFrom(_)
InvalidRefsFrom(k) ==
  IF k > Len(events.elems) THEN <<>>
  ELSE IF events.elems[k] # 0 /\ ~HasValidCoordinates(heap[events.elems[k]])
  THEN <<events.elems[k]>> \o InvalidRefsFrom(k + 1)
  ELSE InvalidRefsFrom(k + 1)

InvalidInputRefs == InvalidRefsFrom(1)

\* C11: a returned call has made exactly one diagnostic for each input event
\* whose coordinates are missing, non-numeric or out of range, in input order,
\* and none for a valid event or for an empty input; the diagnostic of an
\* event that has an identifier contains that identifier; the valid events are
\* all returned with a cluster label.
C11_OneDiagnosticNamingTheEvent ==
  pc = "returned" =>
    /\ Len(warnings) = Len(InvalidInputRefs)
    /\ \A k \in 1..Len(warnings) :
         /\ k <= Len(InvalidInputRefs)
         /\ "id" \in DOMAIN heap[InvalidInputRefs[k]]
              => warnings[k].eventId = <<heap[InvalidInputRefs[k]].id>>
    /\ Len(clusteredEvents) = Len(ValidInputRefs)
    /\ \A k \in 1..Len(clusteredEvents) : "clusterId" \in DOMAIN Output(k)

\* the place of a position in the pipeline
PhaseRank(position) ==
  CASE position = "idle" -> 0
    [] position = "validate" -> 1
    [] position = "index" -> 2
    [] position = "union" -> 3
    [] position = "label" -> 4
    [] OTHER -> 5

\* the forest after a step groups the valid events as the forest before it
SamePartition ==
  \A a, b \in 0..(Len(validEvents) - 1) :
    (RootOf(unionFind', a) = RootOf(unionFind', b)) <=> (RootOf(unionFind, a) = RootOf(unionFind, b))

\* C15: within one call the phases run in the order validate, index, union,
\* label and none is entered again: the position never moves back and only
\* the union phase stays for its next iteration; once the grid is built no
\* event is validated, once the union phase is entered the grid does not
\* change, no label exists before the label phase and the label phase unites
\* nothing.
C15_PhasesInOrder ==
  [][/\ (pc # "idle" /\ pc' # "idle") => PhaseRank(pc') >= PhaseRank(pc)
     /\ (pc' = pc) => (pc = "union" /\ loopI' = loopI + 1)
     /\ pc \in {"index", "union", "label"}
          => (validEvents' = validEvents /\ warnings' = warnings)
     /\ pc \in {"union", "label"} => gridIndex' = gridIndex
     /\ pc' \in {"validate", "index", "union", "label"} => rootToClusterId' = EmptyMap
     /\ pc = "label" => SamePartition]_vars

\* C15 witness: a call went through all four phases, three iterations of the
\* union phase, and returned two clusters
C15_Witness ==
  /\ pc = "returned"
  /\ loopI = 3
  /\ Len(validEvents) = 3
  /\ Cardinality(DOMAIN rootToClusterId) = 2

----------------------------------------------------------------------------
(* clusterEvents called again and again: SpecSequence *)

MaxSequenceEvents == 2

\* the arguments of the calls of a sequence: arrays of the events 1 and 2
\* (3336 km apart) and of event 6 (no coordinates), a radius that unites the
\* two and one that does not
SequenceEventsArgs ==
  {ArrayArg(kinds) : kinds \in UNION {[1..n -> {1, 2, 6}] : n \in 0..MaxSequenceEvents}}

SequenceRadiusArgs == {Num(5000000), Num(1000)}

\* a call of the sequence is entered
SequenceCall == CallWith(SequenceEventsArgs, SequenceRadiusArgs)

\* the call is over: its arguments and its result are the caller's, and what
\* it built (forest, grid, label map) is left behind in memory; previous
\* remembers a call that returned
Return ==
  /\ pc \in {"returned", "thrown"}
  /\ previous' = IF pc = "returned"
                 THEN <<[events |-> events,
                         inputs |-> [ref \in InputRefs |-> heap[ref]],
                         radiusInMeters |-> radiusInMeters,
                         clusterIds |-> [k \in 1..Len(clusteredEvents) |-> Output(k).clusterId],
                         roots |-> [k \in 1..Len(clusteredEvents) |-> RootOf(unionFind, k - 1)]]>>
                 ELSE previous
  /\ pc' = "idle"
  /\ events' = [kind |-> "undefined", elems |-> <<>>]
  /\ radiusInMeters' = Undefined
  /\ heap' = <<>>
  /\ validEvents' = <<>>
  /\ warnings' = <<>>
  /\ error' = ""
  /\ loopI' = 0
  /\ clusteredEvents' = <<>>
  /\ mints' = <<>>
  /\ UNCHANGED <<unionFind, gridIndex, rootToClusterId, outsideClustering>>

NextSequence == SequenceCall \/ Validate \/ Index \/ Union \/ Label \/ Return

SpecSequence == Init /\ [][NextSequence]_vars

\* the call now returned has the arguments of the call that returned before it
SameArgumentsAsPrevious ==
  /\ pc = "returned"
  /\ previous # <<>>
  /\ previous[1].events = events
  /\ previous[1].inputs = [ref \in InputRefs |-> heap[ref]]
  /\ previous[1].radiusInMeters = radiusInMeters

\* C12: two calls with the same events and the same radius produce the same
\* grouping: two output positions share a clusterId in one call exactly when
\* they share one in the other.
C12_SameArgumentsSameGrouping ==
  SameArgumentsAsPrevious =>
    /\ Len(clusteredEvents) = Len(previous[1].clusterIds)
    /\ \A i, j \in 1..Len(clusteredEvents) :
         (Output(i).clusterId = Output(j).clusterId)
           <=> (previous[1].clusterIds[i] = previous[1].clusterIds[j])

\* the comparison loop from iteration i on, run to its end
RECURSIVE CompareAllFrom(_, _, _, _, _)
CompareAllFrom(uf, evs, radius, index, i) ==
  IF i >= Len(evs) THEN uf
  ELSE CompareAllFrom(CompareWithNearby(uf, evs, radius, index, i), evs, radius, index, i + 1)

\* what a call with these arguments builds and returns when nothing was
\* called before it and generateClusterId() returns minted[index] at index:
\* the [uf, map, out] of lines 164-218 on new structures
RunAlone(elems, h, radius, minted) ==
  LET valid == FilterValid(elems, h, <<>>).validEvents
      fields == [k \in 1..Len(valid) |-> h[valid[k]]]
      forest == CompareAllFrom(UnionFind(Len(valid)), fields, radius,
                               createGridIndex(fields, radius), 0)
  IN AssignClusterIds(fields, minted, forest, EmptyMap)

----------------------------------------------------------------------------
(* isValidCoordinate applied to one argument: SpecValidator *)

\* the values of a latitude or longitude field: numbers at, inside and
\* outside the bounds, NaN, the infinities, a string, null, a missing field
CoordinateFieldArgs ==
  {Num(-181), Num(-180), Num(-91), Num(-90), Num(0), Num(90), Num(91), Num(180), Num(181),
   NaN, PosInfinity, NegInfinity, Str, Null, Undefined}

\* the arguments: objects with the two fields, null, undefined, a string
CoordinateArgs ==
  {Coord(lat, lon) : lat \in CoordinateFieldArgs, lon \in CoordinateFieldArgs}
  \cup {[kind |-> k, latitude |-> Undefined, longitude |-> Undefined] :
          k \in {"null", "undefined", "string"}}

InitValidator ==
  /\ ClusterIdle
  /\ previous = <<>>
  /\ coordArg \in CoordinateArgs
  /\ coordAccepted = <<>>
  /\ CacheAbsent
  /\ CacheHistoryIdle
  /\ GeocodingIdle

\* isValidCoordinate(coordArg) is called and returns
CheckCoordinate ==
  /\ coordAccepted = <<>>
  /\ coordAccepted' = <<isValidCoordinate(coordArg)>>
  /\ UNCHANGED <<clusterVars, previous, coordArg, cacheVars, cacheHistoryVars, geocodingVars>>

NextValidator == CheckCoordinate

SpecValidator == InitValidator /\ [][NextValidator]_vars

\* a finite number within lo..hi
FiniteWithin(field, lo, hi) ==
  field.type = "number" /\ field.kind = "finite" /\ lo <= field.val /\ field.val <= hi

\* C13: the validator accepts a point exactly when it is present, latitude
\* and longitude are both finite numbers, -90 <= latitude <= 90 and
\* -180 <= longitude <= 180; NaN, infinite and non-number fields are rejected
\* and the exact bounds are accepted.
C13_AcceptsExactlyFinitePointsInRange ==
  coordAccepted # <<>> =>
    /\ coordAccepted[1] <=> (/\ coordArg.kind = "object"
                             /\ FiniteWithin(coordArg.latitude, -90, 90)
                             /\ FiniteWithin(coordArg.longitude, -180, 180))
    /\ (coordArg.kind = "object"
          /\ (coordArg.latitude.kind # "finite" \/ coordArg.longitude.kind # "finite"))
         => ~coordAccepted[1]
    /\ (coordArg.kind = "object"
          /\ coordArg.latitude \in {Num(-90), Num(90)}
          /\ coordArg.longitude \in {Num(-180), Num(180)})
         => coordAccepted[1]

\* C13 witness: the point with both fields on a bound was accepted
C13_Witness ==
  /\ coordAccepted = <<TRUE>>
  /\ coordArg = Coord(Num(90), Num(-180))

----------------------------------------------------------------------------
(* LRUCache: the Map, get, set, delete, clear, size *)

\* Map.prototype.has
MapHas(entries, key) == \E k \in 1..Len(entries) : entries[k].key = key

\* Map.prototype.get of a key the Map has
MapGet(entries, key) == entries[CHOOSE k \in 1..Len(entries) : entries[k].key = key].value

\* Map.prototype.delete: the entries without the key's entry, order kept
RECURSIVE MapDelete(_, _)
MapDelete(entries, key) ==
  IF entries = <<>> THEN <<>>
  ELSE IF Head(entries).key = key THEN Tail(entries)
  ELSE <<Head(entries)>> \o MapDelete(Tail(entries), key)

\* Map.prototype.set: a new key goes last, a key the Map has keeps its place
MapSet(entries, key, value) ==
  IF MapHas(entries, key)
  THEN [k \in 1..Len(entries) |->
          IF entries[k].key = key THEN [key |-> key, value |-> value] ELSE entries[k]]
  ELSE Append(entries, [key |-> key, value |-> value])

\* this.cache.keys().next().value: the first key, undefined for an empty Map
MapFirstKey(entries) == IF entries = <<>> THEN "undefined" ELSE entries[1].key

\* get that removes the entry it returns (delete without the set after it)
LRUGetRemoving(entries, key) ==
  IF ~MapHas(entries, key) THEN [cache |-> entries, value |-> <<>>]
  ELSE [cache |-> MapDelete(entries, key), value |-> <<MapGet(entries, key)>>]

\* get(key): the Map afterwards and the value returned, <<>> for undefined
LRUGet(entries, key) ==
  IF ~MapHas(entries, key) THEN [cache |-> entries, value |-> <<>>]
  ELSE [cache |-> MapSet(MapDelete(entries, key), key, MapGet(entries, key)),
        value |-> <<MapGet(entries, key)>>]

\* set that removes the entry used last (the last key for the first)
LRUSetEvictingNewest(entries, size, key, value) ==
  IF MapHas(entries, key) THEN MapSet(MapDelete(entries, key), key, value)
  ELSE IF Len(entries) >= size
  THEN MapSet(MapDelete(entries, IF entries = <<>> THEN "undefined" ELSE entries[Len(entries)].key),
              key, value)
  ELSE MapSet(entries, key, value)

\* set that never removes an entry
LRUSetKeepingAll(entries, size, key, value) ==
  IF MapHas(entries, key) THEN MapSet(MapDelete(entries, key), key, value)
  ELSE MapSet(entries, key, value)

\* set(key, value) on a cache of capacity size: the Map afterwards
LRUSet(entries, size, key, value) ==
  IF MapHas(entries, key) THEN MapSet(MapDelete(entries, key), key, value)
  ELSE IF Len(entries) >= size
  THEN MapSet(MapDelete(entries, MapFirstKey(entries)), key, value)
  ELSE MapSet(entries, key, value)

\* delete(key)
LRUDelete(entries, key) == MapDelete(entries, key)

\* clear()
LRUClear(entries) == <<>>

\* size()
LRUSize(entries) == Len(entries)

----------------------------------------------------------------------------
(* The operations of one LRUCache: SpecCache *)

MaxCapacity == 2
MaxOps == 5

CacheKeys == {"a", "b", "c"}
CacheValues == {1, 2}

\* the keys the Map holds
StoredKeys(entries) == {entries[k].key : k \in 1..Len(entries)}

\* the [key, value] pairs the Map holds
StoredEntries(entries) == {entries[k] : k \in 1..Len(entries)}

\* new LRUCache(capacity)
InitCache ==
  /\ ClusterIdle
  /\ previous = <<>>
  /\ ValidatorIdle
  /\ cache = <<>>
  /\ capacity \in 1..MaxCapacity
  /\ lastOp = [op |-> "none"]
  /\ lastUse = [key \in CacheKeys |-> 0]
  /\ written = [key \in CacheKeys |-> <<>>]
  /\ tick = 0
  /\ GeocodingIdle

\* what the history variables record of an operation that left the Map as
\* entries: used is the key it got or set with success ({} when none), set the
\* <<key, value>> it set (<<>> when none); a key that is no longer stored has
\* no time of use and no written value
Recorded(entries, used, set) ==
  /\ tick' = tick + 1
  /\ lastUse' = [key \in CacheKeys |->
                   IF key \notin StoredKeys(entries) THEN 0
                   ELSE IF key \in used THEN tick + 1
                   ELSE lastUse[key]]
  /\ written' = [key \in CacheKeys |->
                   IF key \notin StoredKeys(entries) THEN <<>>
                   ELSE IF set # <<>> /\ set[1] = key THEN <<set[2]>>
                   ELSE written[key]]

\* cache.get(key)
Get ==
  /\ tick < MaxOps
  /\ \E key \in CacheKeys :
       /\ cache' = LRUGet(cache, key).cache
       /\ lastOp' = [op |-> "get", key |-> key, result |-> LRUGet(cache, key).value]
       /\ Recorded(LRUGet(cache, key).cache,
                   IF LRUGet(cache, key).value # <<>> THEN {key} ELSE {}, <<>>)
  /\ UNCHANGED <<clusterVars, previous, validatorVars, capacity, geocodingVars>>

\* cache.set(key, value)
Set ==
  /\ tick < MaxOps
  /\ \E key \in CacheKeys, value \in CacheValues :
       /\ cache' = LRUSet(cache, capacity, key, value)
       /\ lastOp' = [op |-> "set", key |-> key, value |-> value,
                     evicted |-> StoredKeys(cache) \ StoredKeys(LRUSet(cache, capacity, key, value))]
       /\ Recorded(LRUSet(cache, capacity, key, value), {key}, <<key, value>>)
  /\ UNCHANGED <<clusterVars, previous, validatorVars, capacity, geocodingVars>>

\* cache.delete(key)
Delete ==
  /\ tick < MaxOps
  /\ \E key \in CacheKeys :
       /\ cache' = LRUDelete(cache, key)
       /\ lastOp' = [op |-> "delete", key |-> key]
       /\ Recorded(LRUDelete(cache, key), {}, <<>>)
  /\ UNCHANGED <<clusterVars, previous, validatorVars, capacity, geocodingVars>>

\* cache.clear()
Clear ==
  /\ tick < MaxOps
  /\ cache' = LRUClear(cache)
  /\ lastOp' = [op |-> "clear"]
  /\ Recorded(LRUClear(cache), {}, <<>>)
  /\ UNCHANGED <<clusterVars, previous, validatorVars, capacity, geocodingVars>>

\* cache.size()
Size ==
  /\ tick < MaxOps
  /\ lastOp' = [op |-> "size", result |-> LRUSize(cache)]
  /\ Recorded(cache, {}, <<>>)
  /\ UNCHANGED <<clusterVars, previous, validatorVars, cache, capacity, geocodingVars>>

NextCache == Get \/ Set \/ Delete \/ Clear \/ Size

SpecCache == InitCache /\ [][NextCache]_vars

\* the stored key whose most recent successful get or set is the oldest
LeastRecentlyUsed(entries, times) ==
  {key \in StoredKeys(entries) : \A other \in StoredKeys(entries) : times[key] <= times[other]}

\* C16: set evicts only when the key is new and the cache holds capacity
\* entries; it then evicts exactly one entry, the key whose most recent
\* successful get or set is the oldest, and keeps every other key with its
\* value; a set on a stored key, or below capacity, evicts nothing. In every
\* case the key set is stored afterwards with the value set.
C16_SetEvictsOnlyTheLeastRecentlyUsed ==
  [][lastOp'.op = "set" =>
       LET key == lastOp'.key
           gone == StoredKeys(cache) \ StoredKeys(cache')
       IN /\ (key \in StoredKeys(cache) \/ Len(cache) < capacity) => gone = {}
          /\ (key \notin StoredKeys(cache) /\ Len(cache) = capacity)
               => (Cardinality(gone) = 1 /\ gone = LeastRecentlyUsed(cache, lastUse))
          /\ StoredKeys(cache') = (StoredKeys(cache) \ gone) \cup {key}
          /\ \A entry \in StoredEntries(cache) :
               (entry.key \notin gone /\ entry.key # key) => entry \in StoredEntries(cache')
          /\ [key |-> key, value |-> lastOp'.value] \in StoredEntries(cache')]_vars

\* C16 witness: with capacity 2, a was set, b was set, a was read, and the
\* set of the new key c has evicted b, not a
C16_Witness ==
  /\ capacity = 2
  /\ lastOp.op = "set"
  /\ lastOp.key = "c"
  /\ lastOp.evicted = {"b"}
  /\ StoredKeys(cache) = {"a", "c"}
  /\ lastUse["a"] > 2

\* C17: a cache created with a positive integer capacity never stores more
\* entries than its capacity, and size() never returns more.
C17_SizeNeverExceedsCapacity ==
  /\ LRUSize(cache) <= capacity
  /\ Cardinality(StoredKeys(cache)) = Len(cache)
  /\ lastOp.op = "size" => lastOp.result <= capacity

\* C17 witness: a set on a full cache has evicted an entry and the cache is
\* still full
C17_Witness ==
  /\ lastOp.op = "set"
  /\ lastOp.evicted # {}
  /\ capacity >= 1
  /\ Len(cache) = capacity

\* C18: get(k) returns the value of the most recent set(k, v) when k was not
\* evicted, deleted or cleared since, and undefined otherwise; get leaves the
\* stored keys and their values as they were.
C18_GetReturnsLatestSetValue ==
  [][lastOp'.op = "get" =>
       /\ lastOp'.result = written[lastOp'.key]
       /\ StoredEntries(cache') = StoredEntries(cache)]_vars

\* C18 witness: a key was set twice and get returned the second value; the
\* other key had been evicted
C18_Witness ==
  /\ lastOp.op = "get"
  /\ lastOp.result = <<2>>
  /\ tick >= 4
  /\ capacity = 1
  /\ \E key \in CacheKeys : key # lastOp.key /\ written[key] = <<>> /\ lastUse[key] = 0

----------------------------------------------------------------------------
(* GeocodingService.geocode *)

\* a string is the sequence of its characters
\* String.prototype.toLowerCase on one character of the model's alphabet
LowerOf(char) ==
  CASE char = "N" -> "n"
    [] char = "Y" -> "y"
    [] OTHER -> char

\* a character String.prototype.trim removes
IsWhitespace(char) == char \in {" "}

RECURSIVE TrimStart(_)
TrimStart(chars) ==
  IF chars # <<>> /\ IsWhitespace(Head(chars)) THEN TrimStart(Tail(chars)) ELSE chars

RECURSIVE TrimEnd(_)
TrimEnd(chars) ==
  IF chars # <<>> /\ IsWhitespace(chars[Len(chars)])
  THEN TrimEnd(SubSeq(chars, 1, Len(chars) - 1))
  ELSE chars

\* String.prototype.trim
Trim(chars) == TrimEnd(TrimStart(chars))

\* String.prototype.toLowerCase
ToLowerCase(chars) == [k \in 1..Len(chars) |-> LowerOf(chars[k])]

\* locationString.trim() without the toLowerCase()
NormalizeKeepingCase(chars) == Trim(chars)

\* locationString.trim().toLowerCase()
Normalize(chars) == ToLowerCase(Trim(chars))

\* a GeoCoordinates object, in units of 0.0001 degree
GeoCoordinates(latitude, longitude) == [latitude |-> latitude, longitude |-> longitude]

\* what performGeocoding(locationString) resolves to: null (<<>>) for the
\* empty string, else the mock coordinates with their random variation
performGeocoding(chars) ==
  IF chars = <<>> THEN {<<>>}
  ELSE {<<GeoCoordinates(407128, -740060)>>, <<GeoCoordinates(407200, -740000)>>}

----------------------------------------------------------------------------
(* Overlapping geocode calls on one GeocodingService: SpecGeocoding *)

MaxCalls == 2

\* the locationString arguments: "Ny", " ny ", "N Y", " ", and undefined
LocationArgs ==
  {[type |-> "string", chars |-> chars] :
     chars \in {<<"N", "y">>, <<" ", "n", "y", " ">>, <<"N", " ", "Y">>, <<" ">>}}
  \cup {[type |-> "undefined", chars |-> <<>>]}

\* the cache keys these arguments can give
LocationKeys == {Normalize(arg.chars) : arg \in LocationArgs}

\* nothing was resolved for a key
NothingStored == [results |-> {}, askedAs |-> {}]

\* the cacheCapacity arguments of the constructor: a cache that holds one of
\* the two locations that resolve to coordinates, and one that holds both
CacheCapacities == {1, 2}

\* the references of the GeoCoordinates objects: as many as the cache and the
\* callers can hold, and the two a call creates
MaxObjects == 2 + MaxCalls + 2

\* no GeoCoordinates object exists
NoObjects == [ref \in 1..MaxObjects |-> <<>>]

\* the reference the next object created gets
NewRef(objs) == CHOOSE ref \in 1..MaxObjects :
                  objs[ref] = <<>> /\ \A lower \in 1..(ref - 1) : objs[lower] # <<>>

\* an object literal { latitude, longitude }: a new object
NewObject(objs, point) ==
  [objects |-> [objs EXCEPT ![NewRef(objs)] = <<point>>], ref |-> NewRef(objs)]

\* { ...source }: a new object with the fields of the object source
Spread(objs, source) == NewObject(objs, objs[source][1])

\* the object itself where geocode returns { ...cachedResult }
ReturnedOnHitShared(objs, cachedResult) == [objects |-> objs, ref |-> cachedResult]

\* return { ...cachedResult }
ReturnedOnHit(objs, cachedResult) == Spread(objs, cachedResult)

\* the slots of the calls that hold a result object
Holding(records) ==
  {call \in 1..MaxCalls : records[call].pc = "resolved" /\ records[call].result # <<>>}

\* the objects the Map's values and the results the callers hold refer to
Referenced(entries, records) ==
  {entries[k].value : k \in 1..Len(entries)}
  \cup {records[call].result[1] : call \in Holding(records)}

\* where a referenced object is met first, going through the Map's values in
\* their order and then through the calls
MetAt(entries, records, ref) ==
  IF \E k \in 1..Len(entries) : entries[k].value = ref
  THEN CHOOSE k \in 1..Len(entries) :
         entries[k].value = ref /\ \A j \in 1..(k - 1) : entries[j].value # ref
  ELSE Len(entries) + (CHOOSE call \in Holding(records) :
                         /\ records[call].result[1] = ref
                         /\ \A c \in Holding(records) :
                              records[c].result[1] = ref => call <= c)

\* a reference is an identity and no address: the referenced objects are
\* numbered in the order they are met
Numbered(entries, records) ==
  LET met == [ref \in Referenced(entries, records) |-> MetAt(entries, records, ref)]
  IN [ref \in DOMAIN met |->
        Cardinality({other \in DOMAIN met : met[other] <= met[ref]})]

\* the state a step leaves: the objects nothing refers to are collected, the
\* others keep their identity under their number
Left(objs, entries, records) ==
  LET number == Numbered(entries, records)
      named == [n \in 1..MaxObjects |-> {ref \in DOMAIN number : number[ref] = n}]
  IN [objects |->
        [n \in 1..MaxObjects |->
           IF named[n] = {} THEN <<>> ELSE objs[CHOOSE ref \in named[n] : TRUE]],
      cache |->
        [k \in 1..Len(entries) |-> [entries[k] EXCEPT !.value = number[entries[k].value]]],
      calls |->
        [call \in 1..MaxCalls |->
           IF call \in Holding(records)
           THEN [records[call] EXCEPT !.result = <<number[records[call].result[1]]>>]
           ELSE records[call]]]

\* what the awaited performGeocoding(locationString) does: it resolves, to
\* the coordinates or to null, or it rejects, as the geocoding library behind
\* it can
Performed(chars) ==
  {[rejected |-> FALSE, value |-> value] : value \in performGeocoding(chars)}
  \cup {[rejected |-> TRUE, value |-> <<>>]}

\* new GeocodingService(): the cache of capacity cacheCapacity, no call running
InitGeocoding ==
  /\ ClusterIdle
  /\ previous = <<>>
  /\ ValidatorIdle
  /\ cache = <<>>
  /\ capacity \in CacheCapacities
  /\ CacheHistoryIdle
  /\ calls = [call \in 1..MaxCalls |-> [pc |-> "idle"]]
  /\ stored = [key \in LocationKeys |-> NothingStored]
  /\ objects = NoObjects

\* what stored records of a step that left the Map as entries and in which a
\* call asked as chars resolved to the coordinates point under key: a key no
\* longer in the Map loses its record
Resolved(entries, key, chars, point) ==
  [k \in LocationKeys |->
     IF k \notin StoredKeys(entries) THEN NothingStored
     ELSE IF k = key THEN [results |-> stored[k].results \cup {point},
                           askedAs |-> stored[k].askedAs \cup {chars}]
     ELSE stored[k]]

\* what stored records of a step in which no call resolved to coordinates
Unresolved(entries) ==
  [k \in LocationKeys |-> IF k \notin StoredKeys(entries) THEN NothingStored ELSE stored[k]]

\* the calls when this one resolves or starts: the callers of the calls that
\* resolved before have taken their results
Awaited(call) ==
  [other \in 1..MaxCalls |->
     IF other # call /\ calls[other].pc = "resolved" THEN [pc |-> "idle"] ELSE calls[other]]

\* the record of a call: its position, its argument and locals, whether the
\* lookup was a hit, the object it resolved to (<<>> is null), whether that
\* object was new when the call resolved to it, and whether the catch block
\* logged an error
CallRecord(position, arg, normalizedLocation, hit, result, fresh, caught) ==
  [pc |-> position, locationString |-> arg, normalizedLocation |-> normalizedLocation,
   hit |-> hit, result |-> result, fresh |-> fresh, caught |-> caught]

\* a step leaves these objects, Map entries and call records
Leaves(objs, entries, records) ==
  \E left \in {Left(objs, entries, records)} :
    /\ objects' = left.objects
    /\ cache' = left.cache
    /\ calls' = left.calls

\* geocode(locationString) up to its first await: the input check, the cache
\* lookup, on a hit the copy returned, on a miss performGeocoding called; a
\* new call takes the first slot in which no call is running
Geocode(call) ==
  /\ calls[call].pc \in {"idle", "resolved"}
  /\ \A lower \in 1..(call - 1) : calls[lower].pc = "awaiting"
  /\ \E arg \in LocationArgs :
       IF arg.type # "string" \/ arg.chars = <<>>
       THEN /\ Leaves(objects, cache,
                      [Awaited(call) EXCEPT ![call] =
                         CallRecord("resolved", arg, <<>>, FALSE, <<>>, TRUE, FALSE)])
            /\ UNCHANGED stored
       ELSE LET normalizedLocation == Normalize(arg.chars)
                cachedResult == LRUGet(cache, normalizedLocation)
            IN IF cachedResult.value # <<>>
               THEN LET returned == ReturnedOnHit(objects, cachedResult.value[1])
                    IN /\ Leaves(returned.objects, cachedResult.cache,
                                 [Awaited(call) EXCEPT ![call] =
                                    CallRecord("resolved", arg, normalizedLocation, TRUE,
                                               <<returned.ref>>,
                                               returned.ref \notin Referenced(cache, calls),
                                               FALSE)])
                       /\ stored' = Resolved(cachedResult.cache, normalizedLocation, arg.chars,
                                             objects[cachedResult.value[1]][1])
               ELSE /\ Leaves(objects, cachedResult.cache,
                              [Awaited(call) EXCEPT ![call] =
                                 CallRecord("awaiting", arg, normalizedLocation, FALSE,
                                            <<>>, TRUE, FALSE)])
                    /\ stored' = Unresolved(cachedResult.cache)
  /\ UNCHANGED <<clusterVars, previous, validatorVars, capacity, cacheHistoryVars>>

\* a rejection that nothing catches rejects the geocode call
Uncaught(record) == [record EXCEPT !.pc = "rejected"]

\* catch (error) { console.error(...); return null; }
Caught(record) == [record EXCEPT !.pc = "resolved", !.caught = TRUE]

\* the await of performGeocoding is over: a result that is not null is copied
\* into the cache, and the call resolves to the result; a rejection is caught
\* and logged, and the call resolves to null
Settle(call) ==
  /\ calls[call].pc = "awaiting"
  /\ \E performed \in Performed(calls[call].normalizedLocation) :
       IF performed.rejected
       THEN /\ Leaves(objects, cache, [Awaited(call) EXCEPT ![call] = Caught(calls[call])])
            /\ UNCHANGED stored
       ELSE IF performed.value # <<>>
       THEN LET result == NewObject(objects, performed.value[1])
                copy == Spread(result.objects, result.ref)
                entries == LRUSet(cache, capacity, calls[call].normalizedLocation, copy.ref)
            IN /\ Leaves(copy.objects, entries,
                         [Awaited(call) EXCEPT
                            ![call].pc = "resolved",
                            ![call].result = <<result.ref>>,
                            ![call].fresh = result.ref \notin Referenced(cache, calls)])
               /\ stored' = Resolved(entries, calls[call].normalizedLocation,
                                     calls[call].locationString.chars, performed.value[1])
       ELSE /\ Leaves(objects, cache, [Awaited(call) EXCEPT ![call].pc = "resolved"])
            /\ UNCHANGED stored
  /\ UNCHANGED <<clusterVars, previous, validatorVars, capacity, cacheHistoryVars>>

\* the coordinates a caller writes into a result it was given
Elsewhere == GeoCoordinates(0, 0)

\* the caller of a resolved call mutates the object it was given
Mutate(call) ==
  /\ calls[call].pc = "resolved"
  /\ calls[call].result # <<>>
  /\ objects[calls[call].result[1]] # <<Elsewhere>>
  /\ objects' = [objects EXCEPT ![calls[call].result[1]] = <<Elsewhere>>]
  /\ UNCHANGED <<clusterVars, previous, validatorVars, cacheVars, cacheHistoryVars, calls, stored>>

NextGeocoding == \E call \in 1..MaxCalls : Geocode(call) \/ Settle(call) \/ Mutate(call)

SpecGeocoding == InitGeocoding /\ [][NextGeocoding]_vars

\* a step in which the await of a call ends
Settling == \E call \in 1..MaxCalls : calls[call].pc = "awaiting" /\ calls'[call].pc # "awaiting"

\* a step starts a geocode call, in this slot, with a non-empty string
Started(call) ==
  /\ calls[call].pc \in {"idle", "resolved"}
  /\ \A lower \in 1..(call - 1) : calls[lower].pc = "awaiting"
  /\ calls' # calls
  /\ ~Settling
  /\ calls'[call].pc # "idle"
  /\ calls'[call].locationString.type = "string"
  /\ calls'[call].locationString.chars # <<>>

\* C19: after a geocode call for a location has resolved to coordinates, a
\* later geocode call for the same normalized location resolves to equal
\* coordinates without calling performGeocoding, as long as the entry has not
\* been evicted.
C19_LaterCallResolvesToEqualCoordinates ==
  [][\A call \in 1..MaxCalls :
       (Started(call) /\ stored[Normalize(calls'[call].locationString.chars)].results # {})
         => /\ calls'[call].pc = "resolved"
            /\ calls'[call].hit
            /\ \A point \in stored[Normalize(calls'[call].locationString.chars)].results :
                 calls'[call].result # <<>> /\ objects'[calls'[call].result[1]] = <<point>>]_vars

\* the index of the first and of the last character that is no whitespace
FirstInk(chars) ==
  CHOOSE k \in 1..Len(chars) :
    ~IsWhitespace(chars[k]) /\ \A j \in 1..(k - 1) : IsWhitespace(chars[j])

LastInk(chars) ==
  CHOOSE k \in 1..Len(chars) :
    ~IsWhitespace(chars[k]) /\ \A j \in (k + 1)..Len(chars) : IsWhitespace(chars[j])

\* the text between the leading and the trailing whitespace
Core(chars) ==
  IF \A k \in 1..Len(chars) : IsWhitespace(chars[k]) THEN <<>>
  ELSE SubSeq(chars, FirstInk(chars), LastInk(chars))

\* the same letter in either case, or the same character
SameLetter(a, b) == a = b \/ {a, b} \in {{"n", "N"}, {"y", "Y"}}

\* two strings differ at most in letter case and in leading or trailing whitespace
SameLocation(s, t) ==
  /\ Len(Core(s)) = Len(Core(t))
  /\ \A k \in 1..Len(Core(s)) : SameLetter(Core(s)[k], Core(t)[k])

\* C20: location strings that differ only in letter case or in leading or
\* trailing whitespace share one cache entry, and strings that differ
\* otherwise do not; a lookup for a string whose entry another spelling has
\* stored is a cache hit that resolves to the stored coordinates.
C20_SpellingsShareOneCacheEntry ==
  [][/\ \A key1, key2 \in LocationKeys :
          \A s \in stored[key1].askedAs, t \in stored[key2].askedAs :
            SameLocation(s, t) <=> key1 = key2
     /\ \A call \in 1..MaxCalls :
          Started(call) =>
            \A key \in LocationKeys :
              (\E t \in stored[key].askedAs : SameLocation(calls'[call].locationString.chars, t))
                => /\ calls'[call].pc = "resolved"
                   /\ calls'[call].hit
                   /\ calls'[call].result # <<>>
                   /\ objects'[calls'[call].result[1]][1] \in stored[key].results]_vars

\* C20 witness: " ny " was looked up after "Ny" had been resolved and cached,
\* and the lookup was a hit
C20_Witness ==
  \E call \in 1..MaxCalls :
    /\ calls[call].pc = "resolved"
    /\ calls[call].hit
    /\ calls[call].locationString.chars = <<" ", "n", "y", " ">>
    /\ <<"N", "y">> \in stored[<<"n", "y">>].askedAs

\* the coordinates the cache holds, key by key in the Map's order
CachedCoordinates(entries, objs) ==
  [k \in 1..Len(entries) |-> [key |-> entries[k].key, point |-> objs[entries[k].value]]]

\* a step in which the caller of this call mutates the result it holds
Mutated(call) ==
  /\ call \in Holding(calls)
  /\ calls' = calls
  /\ objects'[calls[call].result[1]] # objects[calls[call].result[1]]

C22_FailuresResolveToNullAndAreNotCached ==
  [][/\ \A call \in 1..MaxCalls : calls'[call].pc \in {"idle", "awaiting", "resolved"}
     /\ \A call \in 1..MaxCalls :
          (calls[call].pc = "awaiting" /\ calls'[call].pc # "awaiting")
            => /\ calls'[call].pc = "resolved"
               /\ calls'[call].caught => calls'[call].result = <<>>
               /\ calls'[call].result = <<>>
                    => CachedCoordinates(cache', objects') = CachedCoordinates(cache, objects)
     /\ \A call \in 1..MaxCalls :
          (Started(call) /\ Normalize(calls'[call].locationString.chars) \notin StoredKeys(cache))
            => calls'[call].pc = "awaiting"]_vars

\* C22 witness: performGeocoding threw for a location that resolves to
\* coordinates when it does not throw; the call resolved to null and the
\* cache has no entry for the location
C22_Witness ==
  \E call \in 1..MaxCalls :
    /\ calls[call].pc = "resolved"
    /\ calls[call].caught
    /\ calls[call].result = <<>>
    /\ calls[call].normalizedLocation = <<"n", "y">>
    /\ <<"n", "y">> \notin StoredKeys(cache)

\* C29: performGeocoding is invoked at most once for a normalized location
\* unless an earlier invocation threw, returned null or its entry was
\* evicted: a geocode call that starts while another call for the same
\* location is still awaiting performGeocoding does not invoke it again.
C29_OneLookupPerLocation ==
  [][\A call \in 1..MaxCalls :
       (/\ Started(call)
        /\ \E other \in 1..MaxCalls \ {call} :
             /\ calls[other].pc = "awaiting"
             /\ calls[other].normalizedLocation = Normalize(calls'[call].locationString.chars))
         => calls'[call].pc # "awaiting"]_vars

----------------------------------------------------------------------------
(* The grid and the comparison loops *)

\* the grid row and column of the k-th valid event
RowOf(k) == CellOf(ValidFields[k].coordinates.latitude, gridIndex.degreesPerCell).val
ColOf(k) == CellOf(ValidFields[k].coordinates.longitude, gridIndex.degreesPerCell).val

\* the k-th and the m-th valid event are within the radius of each other
ValidWithinRadius(k, m) ==
  JSLessEq(calculateDistance(ValidFields[k].coordinates, ValidFields[m].coordinates),
           radiusInMeters)

\* C23: the 3x3 neighbourhood is sufficient: with the cell size
\* radius * 360 / 40,075,000, any two valid points whose haversine distance is
\* at most the radius lie in grid rows that differ by at most 1 and in grid
\* columns that differ by at most 1.
C23_NeighbourhoodSufficient ==
  (pc \in {"union", "label", "returned"} /\ PositiveFinite(radiusInMeters)) =>
    \A k, m \in 1..Len(validEvents) :
      ValidWithinRadius(k, m) =>
        /\ RowOf(k) - RowOf(m) \in -1..1
        /\ ColOf(k) - ColOf(m) \in -1..1

----------------------------------------------------------------------------
(* The operations of one UnionFind: SpecUnionFind *)

MaxSize == 4

\* the variables find and union have no part in
outsideUnionFind ==
  <<pc, events, radiusInMeters, heap, validEvents, warnings, error, gridIndex, loopI,
    rootToClusterId, clusteredEvents, mints, previous, validatorVars, cacheVars, lastUse,
    written, tick, geocodingVars>>

\* new UnionFind(size)
InitUnionFind ==
  /\ pc = "idle"
  /\ events = [kind |-> "undefined", elems |-> <<>>]
  /\ radiusInMeters = Undefined
  /\ heap = <<>>
  /\ validEvents = <<>>
  /\ warnings = <<>>
  /\ error = ""
  /\ \E size \in 1..MaxSize : unionFind = UnionFind(size)
  /\ gridIndex = [grid |-> EmptyMap, degreesPerCell |-> DegreesPerCell(Undefined)]
  /\ loopI = 0
  /\ rootToClusterId = EmptyMap
  /\ clusteredEvents = <<>>
  /\ mints = <<>>
  /\ previous = <<>>
  /\ ValidatorIdle
  /\ CacheAbsent
  /\ CacheHistoryIdle
  /\ GeocodingIdle

\* the number of parent pointers between x and the root of its tree
RECURSIVE Hops(_, _)
Hops(uf, x) == IF uf.parent[x] = x THEN 0 ELSE 1 + Hops(uf, uf.parent[x])

\* find(x) that returns the root and compresses no path
CallFindWithoutCompression(x) ==
  /\ x \in DOMAIN unionFind.parent
  /\ lastOp' = [op |-> "find", x |-> x, y |-> x, returned |-> find(unionFind, x).root,
                hops |-> Hops(unionFind, x)]
  /\ UNCHANGED unionFind
  /\ UNCHANGED outsideUnionFind

\* unionFind.find(x)
CallFind(x) ==
  /\ x \in DOMAIN unionFind.parent
  /\ unionFind' = find(unionFind, x).uf
  /\ lastOp' = [op |-> "find", x |-> x, y |-> x, returned |-> find(unionFind, x).root,
                hops |-> Hops(unionFind, x)]
  /\ UNCHANGED outsideUnionFind

\* unionFind.union(x, y)
CallUnion(x, y) ==
  /\ x \in DOMAIN unionFind.parent
  /\ y \in DOMAIN unionFind.parent
  /\ unionFind' = union(unionFind, x, y)
  /\ lastOp' = [op |-> "union", x |-> x, y |-> y, returned |-> x, hops |-> 0]
  /\ UNCHANGED outsideUnionFind

NextUnionFind ==
  \/ \E x \in 0..(MaxSize - 1) : CallFind(x)
  \/ \E x, y \in 0..(MaxSize - 1) : CallUnion(x, y)

SpecUnionFind == InitUnionFind /\ [][NextUnionFind]_vars

\* the indices of a structure
Indices(uf) == DOMAIN uf.parent

\* the index reached from x by following k parent pointers
RECURSIVE Ancestor(_, _, _)
Ancestor(uf, x, k) == IF k = 0 THEN x ELSE Ancestor(uf, uf.parent[x], k - 1)

\* following the parent pointers from x reaches a self-parented root without
\* visiting an index twice
ReachesRoot(uf, x) ==
  \E k \in 0..(Cardinality(Indices(uf)) - 1) :
    /\ \A j \in 0..k : Ancestor(uf, x, j) \in Indices(uf)
    /\ uf.parent[Ancestor(uf, x, k)] = Ancestor(uf, x, k)
    /\ \A j1, j2 \in 0..k : j1 # j2 => Ancestor(uf, x, j1) # Ancestor(uf, x, j2)

\* two indices are in one set
SameSet(uf, a, b) == RootOf(uf, a) = RootOf(uf, b)

\* the indices on the path from x to the root of its tree, the root left out
RECURSIVE PathBelowRoot(_, _)
PathBelowRoot(uf, x) ==
  IF uf.parent[x] = x THEN {} ELSE {x} \cup PathBelowRoot(uf, uf.parent[x])

\* C24: union(x, y) merges exactly the sets of x and y: afterwards x and y
\* share a root, every pair that shared a root still does, and two indices
\* share a root afterwards only if they did before or both were in the sets
\* of x and y; when x and y share a root already, no set and no rank changes.
C24_UnionMergesExactlyTwoSets ==
  [][lastOp'.op = "union" =>
       LET x == lastOp'.x
           y == lastOp'.y
           merged == {a \in Indices(unionFind) :
                        SameSet(unionFind, a, x) \/ SameSet(unionFind, a, y)}
       IN /\ Indices(unionFind') = Indices(unionFind)
          /\ SameSet(unionFind', x, y)
          /\ \A a, b \in Indices(unionFind) :
               SameSet(unionFind', a, b)
                 <=> (SameSet(unionFind, a, b) \/ (a \in merged /\ b \in merged))
          /\ SameSet(unionFind, x, y) =>
               /\ \A a, b \in Indices(unionFind) :
                    SameSet(unionFind', a, b) <=> SameSet(unionFind, a, b)
               /\ unionFind'.rank = unionFind.rank]_vars

\* C24 witness: a union has merged two sets of two indices each
C24_Witness ==
  /\ lastOp.op = "union"
  /\ Cardinality({a \in Indices(unionFind) : SameSet(unionFind, a, lastOp.x)}) = 4
  /\ unionFind.rank[RootOf(unionFind, lastOp.x)] = 2

\* C25: after any sequence of union and find calls, parent is a forest over
\* 0..n-1 (following the parent pointers from any index reaches a
\* self-parented root without revisiting an index) and every non-root index
\* has a rank strictly smaller than the rank of its parent.
C25_ForestWithIncreasingRanks ==
  \A x \in Indices(unionFind) :
    /\ ReachesRoot(unionFind, x)
    /\ unionFind.parent[x] # x => unionFind.rank[x] < unionFind.rank[unionFind.parent[x]]

\* C25 witness: a tree of three levels, after unions and finds
C25_Witness ==
  /\ lastOp.op = "find"
  /\ \E x \in Indices(unionFind) : Hops(unionFind, x) = 2

\* C26: find(x) returns the root of the tree of x and changes no set and no
\* rank; afterwards every index that was on the path from x to the root has
\* the root as its parent; a second find(x) returns the same root and changes
\* nothing.
C26_FindCompressesThePath ==
  [][lastOp'.op = "find" =>
       LET x == lastOp'.x
       IN /\ lastOp'.returned = RootOf(unionFind, x)
          /\ \A a, b \in Indices(unionFind) :
               SameSet(unionFind', a, b) <=> SameSet(unionFind, a, b)
          /\ \A a \in Indices(unionFind) : RootOf(unionFind', a) = RootOf(unionFind, a)
          /\ unionFind'.rank = unionFind.rank
          /\ \A a \in PathBelowRoot(unionFind, x) : unionFind'.parent[a] = lastOp'.returned
          /\ find(unionFind', x).root = lastOp'.returned
          /\ find(unionFind', x).uf = unionFind']_vars

\* C26 witness: a find has compressed a path of two parent pointers
C26_Witness ==
  /\ lastOp.op = "find"
  /\ lastOp.hops = 2
  /\ unionFind.parent[lastOp.x] = lastOp.returned

----------------------------------------------------------------------------
(* Labelling and the comparison loops of one call *)

\* the roots of the valid events: one per connected component
Roots == {RootOf(unionFind, k - 1) : k \in 1..Len(validEvents)}

\* the first valid index (0-based, in output order) whose root is root
FirstWithRoot(root) ==
  CHOOSE index \in 0..(Len(validEvents) - 1) :
    /\ RootOf(unionFind, index) = root
    /\ \A lower \in 0..(index - 1) : RootOf(unionFind, lower) # root

\* C27: generateClusterId is called exactly once per distinct union-find
\* root, at the first valid index whose root it is; every later index with
\* that root reuses the label recorded there, so the number of labels minted
\* in a call equals the number of connected components.
C27_OneLabelMintedPerRoot ==
  pc = "returned" =>
    /\ Len(mints) = Cardinality(Roots)
    /\ \A root \in Roots :
         /\ Cardinality({m \in 1..Len(mints) : RootOf(unionFind, mints[m].index) = root}) = 1
         /\ \E m \in 1..Len(mints) : mints[m].index = FirstWithRoot(root)
    /\ \A k \in 1..Len(clusteredEvents) :
         \E m \in 1..Len(mints) :
           /\ mints[m].index = FirstWithRoot(RootOf(unionFind, k - 1))
           /\ Output(k).clusterId = mints[m].clusterId

\* C27 witness: three valid events in two components, the first and the last
\* in one: labels were minted at indices 0 and 1, and index 2 reused one
C27_Witness ==
  /\ pc = "returned"
  /\ Len(validEvents) = 3
  /\ RootOf(unionFind, 0) = RootOf(unionFind, 2)
  /\ RootOf(unionFind, 0) # RootOf(unionFind, 1)
  /\ Len(mints) = 2

\* the valid events linked to those of S by hops within the radius
RECURSIVE ValidLinkedTo(_)
ValidLinkedTo(S) ==
  LET T == S \cup {m \in 1..Len(validEvents) : \E k \in S : ValidWithinRadius(k, m)}
  IN IF T = S THEN S ELSE ValidLinkedTo(T)

\* C28: clusterEvents never over-merges: the union-find structure is over
\* the valid events only, every one of them has valid coordinates, and two
\* of them share a root only if a chain of valid events links them in which
\* every consecutive pair is within the radius.
C28_NeverOverMerges ==
  pc \in {"union", "label", "returned"} =>
    /\ DOMAIN unionFind.parent = 0..(Len(validEvents) - 1)
    /\ \A k \in 1..Len(validEvents) : HasValidCoordinates(ValidFields[k])
    /\ \A key \in DOMAIN gridIndex.grid :
         \A q \in 1..Len(gridIndex.grid[key]) :
           gridIndex.grid[key][q] \in 0..(Len(validEvents) - 1)
    /\ \A k, m \in 1..Len(validEvents) :
         SameSet(unionFind, k - 1, m - 1) => m \in ValidLinkedTo({k})

\* C28 witness: an invalid event was skipped, and two valid events in
\* neighbouring cells were compared, found farther apart than the radius and
\* left in two sets
C28_Witness ==
  /\ pc = "returned"
  /\ Len(warnings) = 1
  /\ \E k, m \in 1..Len(validEvents) :
       /\ k # m
       /\ RowOf(k) - RowOf(m) \in -1..1
       /\ ColOf(k) - ColOf(m) \in -1..1
       /\ ~ValidWithinRadius(k, m)
       /\ ~SameSet(unionFind, k - 1, m - 1)

\* C30: for any array passed as events, whatever its elements, and any
\* accepted radius, clusterEvents returns normally: the only errors it throws
\* are 'Events must be an array' and 'Radius must be a positive number'.
C30_ThrowsOnlyContractViolations ==
  /\ pc = "thrown" => error \in {"Events must be an array", "Radius must be a positive number"}
  /\ (events.kind = "array" /\ InputCheck(events, radiusInMeters) = "") => pc # "thrown"

====
